---- MODULE Spec2Model ----
(***************************************************************************)
(* Header resolution of CSVParser (src/csv_header.py).                     *)
(*                                                                         *)
(* A string is a sequence of one-character strings, so that strip, lower   *)
(* and replace are computed character by character.  A DataFrame is a      *)
(* sequence of rows (RangeIndex 0..n-1, as pd.read_csv(header=None) gives  *)
(* it), a row a sequence of cells, a cell a string or NaN.  Row and column *)
(* indices are 0-based as in Python.  An Optional[int] is a set with at    *)
(* most one element (None is the empty set).  A dict with insertion order  *)
(* that the code relies on (the schema) is a sequence of records; a dict   *)
(* whose order is never observed is a function.                            *)
(***************************************************************************)
EXTENDS Integers, Sequences, FiniteSets, TLC

VARIABLES required_headers, optional_headers, max_rows,
          dataframe, pc, i,
          collected_headers, missing_required_headers, last_match_row,
          result, parsed

vars == <<required_headers, optional_headers, max_rows, dataframe, pc, i,
          collected_headers, missing_required_headers, last_match_row,
          result, parsed>>

(* Bounds of the model. *)
MaxRowCount == 2
MaxMaxRows == 2
MaxLen == 3

(* The invocations of parse_csv / find_header_row on the one parser. *)
Calls == {1, 2}

Min(a, b) == IF a <= b THEN a ELSE b
Max(a, b) == IF a >= b THEN a ELSE b

(* ---------------------------------------------------------------- str *)

None == <<"None">>
NaN == <<"NaN">>
EmptyDict == <<>>

UpperCase == <<"A","B","C","D","E","F","G","H","I","J","K","L","M",
               "N","O","P","Q","R","S","T","U","V","W","X","Y","Z">>
LowerCase == <<"a","b","c","d","e","f","g","h","i","j","k","l","m",
               "n","o","p","q","r","s","t","u","v","w","x","y","z">>
Whitespace == {" ", "\n", "\t", "\r"}

lowerChar(ch) ==
    IF \E k \in 1..26 : UpperCase[k] = ch
    THEN LowerCase[CHOOSE k \in 1..26 : UpperCase[k] = ch]
    ELSE ch

(* str.lower() *)
lower(s) == [k \in 1..Len(s) |-> lowerChar(s[k])]

RECURSIVE lstrip(_)
lstrip(s) == IF s # <<>> /\ Head(s) \in Whitespace THEN lstrip(Tail(s)) ELSE s

RECURSIVE rstrip(_)
rstrip(s) ==
    IF s # <<>> /\ s[Len(s)] \in Whitespace
    THEN rstrip(SubSeq(s, 1, Len(s) - 1))
    ELSE s

(* str.strip() *)
strip(s) == rstrip(lstrip(s))

(* str.replace('\n', ' ') *)
replace_newline(s) == [k \in 1..Len(s) |-> IF s[k] = "\n" THEN " " ELSE s[k]]

(* pd.notna(col) *)
notna(col) == col # NaN

(* One entry of header_row: line 56. *)
normalize_cell(col) ==
    IF notna(col) THEN replace_newline(lower(strip(col))) ELSE None

(* header_row: lines 55-58. *)
normalize_row(row) == [k \in 1..Len(row) |-> normalize_cell(row[k])]

(* normalized_header: lines 62 and 77. *)
normalize_header(header) == lower(strip(header))

(* alias.lower(): lines 68-69 and 81-82. *)
normalize_alias(alias) == lower(alias)

(* x in header_row *)
contains(header_row, x) == \E k \in 1..Len(header_row) : header_row[k] = x

IndexRightmost(header_row, x) ==
    (CHOOSE k \in 1..Len(header_row) :
        /\ header_row[k] = x
        /\ \A j \in (k+1)..Len(header_row) : header_row[j] # x) - 1

(* header_row.index(x): the first position holding x (x is in header_row). *)
index(header_row, x) ==
    (CHOOSE k \in 1..Len(header_row) :
        /\ header_row[k] = x
        /\ \A j \in 1..(k-1) : header_row[j] # x) - 1

(* ------------------------------------------------------------- dicts *)

keys(headers) == [k \in 1..Len(headers) |-> headers[k].header]
keyset(headers) == {headers[k].header : k \in 1..Len(headers)}

(* d[key] = value *)
setitem(d, key, value) ==
    [x \in (DOMAIN d) \cup {key} |-> IF x = key THEN value ELSE d[x]]

RemoveNothing(lst, x) == lst

(* if x in lst: lst.remove(x)  (lines 65-66, 71-72) *)
remove(lst, x) ==
    IF \E k \in 1..Len(lst) : lst[k] = x
    THEN LET p == CHOOSE k \in 1..Len(lst) :
                     lst[k] = x /\ \A j \in 1..(k-1) : lst[j] # x
         IN  SubSeq(lst, 1, p - 1) \o SubSeq(lst, p + 1, Len(lst))
    ELSE lst

HeadAll(df, n) == df

(* dataframe.head(n): line 54. *)
head(df, n) ==
    IF n >= 0
    THEN SubSeq(df, 1, Min(n, Len(df)))
    ELSE SubSeq(df, 1, Max(0, Len(df) + n))

(* ------------------------------------------------- find_header_row *)

(* any(alias.lower() in header_row for alias in aliases) *)
any_alias(aliases, header_row) ==
    \E k \in 1..Len(aliases) : contains(header_row, normalize_alias(aliases[k]))

NextAliasLast(aliases, header_row) ==
    normalize_alias(aliases[
        CHOOSE k \in 1..Len(aliases) :
            /\ contains(header_row, normalize_alias(aliases[k]))
            /\ \A j \in (k+1)..Len(aliases) :
                   ~contains(header_row, normalize_alias(aliases[j]))])

(* next(alias.lower() for alias in aliases if alias.lower() in header_row) *)
next_alias(aliases, header_row) ==
    normalize_alias(aliases[
        CHOOSE k \in 1..Len(aliases) :
            /\ contains(header_row, normalize_alias(aliases[k]))
            /\ \A j \in 1..(k-1) :
                   ~contains(header_row, normalize_alias(aliases[j]))])

(* The locals of one pass over a row: collected_headers,                  *)
(* missing_required_headers, last_match_row.                              *)
Locals(c, m, l) == [collected |-> c, missing |-> m, last |-> l]

(* Body of the required loop, lines 62-73. *)
match_required(header, aliases, header_row, row_i, acc) ==
    LET normalized_header == normalize_header(header) IN
    IF contains(header_row, normalized_header) /\ header \notin DOMAIN acc.collected
    THEN Locals(setitem(acc.collected, header, index(header_row, normalized_header)),
                remove(acc.missing, header),
                {row_i})
    ELSE IF any_alias(aliases, header_row)
    THEN Locals(setitem(acc.collected, header,
                        index(header_row, next_alias(aliases, header_row))),
                remove(acc.missing, header),
                {row_i})
    ELSE acc

(* Body of the optional loop, lines 77-84. *)
match_optional(header, aliases, header_row, row_i, acc) ==
    LET normalized_header == normalize_header(header) IN
    IF contains(header_row, normalized_header) /\ header \notin DOMAIN acc.collected
    THEN Locals(setitem(acc.collected, header, index(header_row, normalized_header)),
                acc.missing,
                {row_i})
    ELSE IF any_alias(aliases, header_row)
    THEN Locals(setitem(acc.collected, header,
                        index(header_row, next_alias(aliases, header_row))),
                acc.missing,
                {row_i})
    ELSE acc

(* for header, aliases in self.required_headers.items(): line 61 *)
RECURSIVE required_loop(_, _, _, _, _)
required_loop(headers, k, header_row, row_i, acc) ==
    IF k > Len(headers) THEN acc
    ELSE required_loop(headers, k + 1, header_row, row_i,
            match_required(headers[k].header, headers[k].aliases,
                           header_row, row_i, acc))

(* for header, aliases in self.optional_headers.items(): line 76 *)
RECURSIVE optional_loop(_, _, _, _, _)
optional_loop(headers, k, header_row, row_i, acc) ==
    IF k > Len(headers) THEN acc
    ELSE optional_loop(headers, k + 1, header_row, row_i,
            match_optional(headers[k].header, headers[k].aliases,
                           header_row, row_i, acc))

(* One iteration of the row loop, lines 54-84. *)
scan_row(req, opt, row, row_i, acc) ==
    LET header_row == normalize_row(row) IN
    optional_loop(opt, 1, header_row, row_i,
        required_loop(req, 1, header_row, row_i, acc))

NothingCollected(collected, req) == DOMAIN collected = {}

(* not collected_headers.keys() & self.required_headers.keys(): line 94 *)
no_required_found(collected, req) == (DOMAIN collected) \cap keyset(req) = {}

(* {key: collected_headers[key] for key in headers if key in collected_headers} *)
indices(headers, collected) ==
    [key \in keyset(headers) \cap DOMAIN collected |-> collected[key]]

(* Lines 90-100: the tuple find_header_row returns. *)
find_header_row_return(req, opt, acc) ==
    LET header_start_row == {r + 1 : r \in acc.last} IN
    IF no_required_found(acc.collected, req)
    THEN [header_start_row |-> {}, header_indices |-> EmptyDict,
          missing_headers |-> acc.missing, optional_indices |-> EmptyDict]
    ELSE [header_start_row |-> header_start_row,
          header_indices |-> indices(req, acc.collected),
          missing_headers |-> acc.missing,
          optional_indices |-> indices(opt, acc.collected)]

(* Lines 112-125: what parse_csv returns for the tuple.  pd.read_csv      *)
(* raises on a file with no rows, which the except clause reports.        *)
parse_csv_return(df, r) ==
    IF Len(df) = 0
    THEN [kind |-> "exception"]
    ELSE IF Len(r.missing_headers) > 0
    THEN [kind |-> "error", missing |-> r.missing_headers]
    ELSE [kind |-> "ok", header_start_row |-> r.header_start_row,
          header_indices |-> r.header_indices,
          optional_indices |-> r.optional_indices]

FrameShared(c) == 1

(* The frame holding a call's locals (lines 50-52): its own. *)
Frame(c) == c

(* ------------------------------------------------------------ inputs *)

(* Field names and aliases, shaped as those of src/example.py lines 7-22. *)
Address == <<"A", "d">>
Price == <<"P", "r", " ">>
Bedrooms == <<"B", "d">>
SquareFootage == <<"S", " ", "q">>
cost == <<"C", "o">>
amount == <<"a", "m">>
size == <<"s", "z">>

Field(h, a) == [header |-> h, aliases |-> a]

SchemaFull ==
    [required |-> <<Field(Address, <<>>), Field(Price, <<cost, amount>>),
                   Field(Bedrooms, <<>>)>>,
     optional |-> <<Field(SquareFootage, <<size>>)>>]

SchemaOptionalOnly ==
    [required |-> <<>>,
     optional |-> <<Field(SquareFootage, <<size>>)>>]

(* Schemas: field names are unique across required and optional. *)
Schemas == {SchemaFull, SchemaOptionalOnly}

RowTitle == << <<"x">>, NaN, NaN >>
RowCanonical == << <<"A","d">>, <<" ","p","r">>, <<"B","D">> >>
RowAliases == << <<"a","m">>, <<"C","O">>, <<"s","\n","q">> >>
RowBoth == << <<"c","o">>, <<"P","r","\n">>, <<"a","d">> >>
RowDuplicate == << <<"b","d">>, <<"b","d">>, <<"s","z">> >>
RowOptional == << NaN, <<"s","z">>, <<"S"," ","q">> >>

Rows == {RowTitle, RowCanonical, RowAliases, RowBoth, RowDuplicate, RowOptional}
RowsTwo == {RowCanonical, RowBoth}

TablesOf(rows, n) == UNION {[1..k -> rows] : k \in 0..n}

Alphabet == {"a", "A", " ", "\n"}
Strings(n) == UNION {[1..k -> Alphabet] : k \in 1..n}
HasLetter(s) == \E k \in 1..Len(s) : s[k] \in {"a", "A"}
Other == <<"k">>

(* ------------------------------------------------------------- state *)

Pending == [kind |-> "pending"]

InitCalls ==
    /\ pc = [c \in Calls |-> "idle"]
    /\ i = [c \in Calls |-> 0]
    /\ collected_headers = [c \in Calls |-> EmptyDict]
    /\ missing_required_headers = [c \in Calls |-> <<>>]
    /\ last_match_row = [c \in Calls |-> {}]
    /\ result = [c \in Calls |-> Pending]
    /\ parsed = [c \in Calls |-> Pending]

(* One parser, called twice on the same table. *)
Init ==
    /\ \E s \in Schemas :
          /\ required_headers = s.required
          /\ optional_headers = s.optional
    /\ max_rows \in 0..MaxMaxRows
    /\ \E t \in TablesOf(Rows, MaxRowCount) : dataframe = [c \in Calls |-> t]
    /\ InitCalls

(* One parser, called on two tables. *)
InitTwo ==
    /\ required_headers = SchemaFull.required
    /\ optional_headers = SchemaFull.optional
    /\ max_rows \in 0..MaxMaxRows
    /\ dataframe \in [Calls -> TablesOf(RowsTwo, MaxRowCount)]
    /\ InitCalls

(* One parser with one declared name, and a one-cell table. *)
InitNorm ==
    /\ \E name \in Strings(MaxLen) :
          \/ /\ required_headers = <<Field(name, <<>>)>>
             /\ optional_headers = <<>>
          \/ /\ required_headers = <<Field(Other, <<name>>)>>
             /\ optional_headers = <<>>
          \/ /\ required_headers = <<>>
             /\ optional_headers = <<Field(Other, <<name>>)>>
    /\ max_rows = 1
    /\ \E cell \in {s \in Strings(MaxLen) : HasLetter(s)} :
          dataframe = [c \in Calls |-> << <<cell>> >>]
    /\ InitCalls

window(c) == head(dataframe[c], max_rows)

(* Lines 50-52: find_header_row is entered and its locals are created. *)
Call(c) ==
    /\ pc[c] = "idle"
    /\ pc' = [pc EXCEPT ![c] = "scan"]
    /\ i' = [i EXCEPT ![c] = 0]
    /\ collected_headers' = [collected_headers EXCEPT ![Frame(c)] = EmptyDict]
    /\ missing_required_headers' =
          [missing_required_headers EXCEPT ![Frame(c)] = keys(required_headers)]
    /\ last_match_row' = [last_match_row EXCEPT ![Frame(c)] = {}]
    /\ UNCHANGED <<required_headers, optional_headers, max_rows, dataframe,
                   result, parsed>>

(* Lines 54-84: one row of dataframe.head(self.max_rows) is scanned. *)
ScanRow(c) ==
    /\ pc[c] = "scan"
    /\ i[c] < Len(window(c))
    /\ LET acc == scan_row(required_headers, optional_headers,
                           window(c)[i[c] + 1], i[c],
                           Locals(collected_headers[Frame(c)],
                                  missing_required_headers[Frame(c)],
                                  last_match_row[Frame(c)]))
       IN  /\ collected_headers' =
                 [collected_headers EXCEPT ![Frame(c)] = acc.collected]
           /\ missing_required_headers' =
                 [missing_required_headers EXCEPT ![Frame(c)] = acc.missing]
           /\ last_match_row' = [last_match_row EXCEPT ![Frame(c)] = acc.last]
    /\ i' = [i EXCEPT ![c] = i[c] + 1]
    /\ UNCHANGED <<required_headers, optional_headers, max_rows, dataframe,
                   pc, result, parsed>>

(* Lines 90-100 and 114-125: the loop is over, find_header_row returns   *)
(* its tuple and parse_csv turns it into its own result.                 *)
Return(c) ==
    /\ pc[c] = "scan"
    /\ i[c] = Len(window(c))
    /\ LET r == find_header_row_return(required_headers, optional_headers,
                    Locals(collected_headers[Frame(c)],
                           missing_required_headers[Frame(c)],
                           last_match_row[Frame(c)]))
       IN  /\ result' = [result EXCEPT ![c] = r]
           /\ parsed' = [parsed EXCEPT ![c] = parse_csv_return(dataframe[c], r)]
    /\ pc' = [pc EXCEPT ![c] = "done"]
    /\ UNCHANGED <<required_headers, optional_headers, max_rows, dataframe, i,
                   collected_headers, missing_required_headers, last_match_row>>

Next == \E c \in Calls : Call(c) \/ ScanRow(c) \/ Return(c)

Spec == Init /\ [][Next]_vars
SpecTwo == InitTwo /\ [][Next]_vars
SpecNorm == InitNorm /\ [][Next]_vars

(* ------------------------------------------------------------ claims *)

(* What the claims speak of, stated on the inputs alone.                  *)

(* Number of rows in the scan window of call c. *)
WindowLen(c) == Min(max_rows, Len(dataframe[c]))

(* The first min(maxRows, rowCount) rows of a table. *)
Prefix(t) == [k \in 1..Min(max_rows, Len(t)) |-> t[k]]

(* The normalized row r (0-based) of call c's table. *)
HeaderRowAt(c, r) == normalize_row(dataframe[c][r + 1])

RequiredFields == {required_headers[k] : k \in 1..Len(required_headers)}
OptionalFields == {optional_headers[k] : k \in 1..Len(optional_headers)}
AllFields == RequiredFields \cup OptionalFields

(* The row holds the field's canonical name, as the scan compares it. *)
HasCanonical(f, hr) == \E k \in 1..Len(hr) : hr[k] = normalize_header(f.header)

(* The row holds alias number a of the field, as the scan compares it. *)
HasAlias(f, a, hr) == \E k \in 1..Len(hr) : hr[k] = normalize_alias(f.aliases[a])

(* The row matches the field: by its canonical name or by an alias. *)
FieldInRow(f, hr) ==
    HasCanonical(f, hr) \/ \E a \in 1..Len(f.aliases) : HasAlias(f, a, hr)

(* The field is matched somewhere in the scan window of call c. *)
MatchedInWindow(c, f) ==
    \E r \in 0..(WindowLen(c) - 1) : FieldInRow(f, HeaderRowAt(c, r))

(* The leftmost column (0-based) of hr holding x. *)
LeftmostColumn(hr, x) ==
    (CHOOSE k \in 1..Len(hr) : hr[k] = x /\ \A j \in 1..(k - 1) : hr[j] # x) - 1

(* The step of call c scans a row and records an index for header h. *)
Records(c, h) ==
    /\ pc[c] = "scan"
    /\ i'[c] = i[c] + 1
    /\ h \in DOMAIN collected_headers'[c]
    /\ \/ h \notin DOMAIN collected_headers[c]
       \/ collected_headers'[c][h] # collected_headers[c][h]

RECURSIVE UnmatchedFrom(_, _)
UnmatchedFrom(c, k) ==
    IF k > Len(required_headers) THEN <<>>
    ELSE (IF MatchedInWindow(c, required_headers[k])
          THEN <<>> ELSE <<required_headers[k].header>>)
         \o UnmatchedFrom(c, k + 1)

(* The required names never matched in the window, in declaration order. *)
UnmatchedRequired(c) == UnmatchedFrom(c, 1)

(* C1: all-or-nothing for required fields.  With required and optional    *)
(* names disjoint, when some but not all required fields are matched in   *)
(* the scan window, the outcome is an error and never a success mapping,  *)
(* and its missing list is exactly the required names never matched in    *)
(* the window, each once, in declaration order.                           *)
C1_AllOrNothing ==
    \A c \in Calls :
        ( /\ pc[c] = "done"
          /\ keyset(required_headers) \cap keyset(optional_headers) = {}
          /\ \E f \in RequiredFields : MatchedInWindow(c, f)
          /\ \E f \in RequiredFields : ~MatchedInWindow(c, f) )
        => /\ parsed[c].kind = "error"
           /\ parsed[c].missing = UnmatchedRequired(c)
           /\ result[c].missing_headers = UnmatchedRequired(c)

(* Only the second of three required fields is matched. *)
C1_Witness ==
    \E c \in Calls :
        /\ pc[c] = "done"
        /\ Len(required_headers) = 3
        /\ MatchedInWindow(c, required_headers[2])
        /\ ~MatchedInWindow(c, required_headers[1])
        /\ ~MatchedInWindow(c, required_headers[3])
        /\ parsed[c].kind = "error"
        /\ parsed[c].missing = <<required_headers[1].header, required_headers[3].header>>

(* C2: no-overwrite.  Once the scan has recorded a column index for a     *)
(* field, no later row of the window changes it.                          *)
C2_NoOverwrite ==
    [][\A c \in Calls : \A h \in DOMAIN collected_headers[c] :
          pc[c] = "scan" /\ pc'[c] = "scan"
          => /\ h \in DOMAIN collected_headers'[c]
             /\ collected_headers'[c][h] = collected_headers[c][h]]_vars

(* C3: canonical over alias.  When a scanned row holds both a field's     *)
(* canonical name and one of its aliases in different columns, an index   *)
(* recorded for the field from that row is the canonical name's column.   *)
C3_CanonicalOverAlias ==
    [][\A c \in Calls : \A f \in AllFields :
          ( /\ Records(c, f.header)
            /\ HasCanonical(f, HeaderRowAt(c, i[c]))
            /\ \E a \in 1..Len(f.aliases) :
                  /\ HasAlias(f, a, HeaderRowAt(c, i[c]))
                  /\ normalize_alias(f.aliases[a]) # normalize_header(f.header) )
          => collected_headers'[c][f.header] =
                LeftmostColumn(HeaderRowAt(c, i[c]), normalize_header(f.header))]_vars

Contributes(c, r) ==
    \E f \in AllFields :
        /\ FieldInRow(f, HeaderRowAt(c, r))
        /\ \A q \in 0..(r - 1) : ~FieldInRow(f, HeaderRowAt(c, q))

(* C5: data start row.  On success with at least one required field, the  *)
(* data start row is one past the last row of the window that contributed *)
(* a match; a row contributing none never advances it; so it lies in      *)
(* 1..min(maxRows, rowCount).                                             *)
C5_DataStartRow ==
    \A c \in Calls :
        ( /\ pc[c] = "done"
          /\ Len(required_headers) > 0
          /\ parsed[c].kind = "ok" )
        => /\ \E r \in 0..(WindowLen(c) - 1) :
                 /\ Contributes(c, r)
                 /\ \A q \in (r + 1)..(WindowLen(c) - 1) : ~Contributes(c, q)
                 /\ parsed[c].header_start_row = {r + 1}
           /\ \A d \in parsed[c].header_start_row : 1 <= d /\ d <= WindowLen(c)

(* lowercase, trim, newline to space: one normalization for every string. *)
Norm(s) == replace_newline(lower(strip(s)))

(* The declared names of a field, canonical name first. *)
DeclaredNames(f) == {f.header} \cup {f.aliases[a] : a \in 1..Len(f.aliases)}

(* C6: uniform normalization.  A cell matches a declared name, canonical  *)
(* or alias, exactly when both have the same normal form.                 *)
C6_UniformNormalization ==
    \A c \in Calls : \A f \in AllFields :
        pc[c] = "done" /\ WindowLen(c) > 0
        => ( f.header \in DOMAIN collected_headers[c]
             <=> \E r \in 0..(WindowLen(c) - 1) :
                    \E k \in 1..Len(dataframe[c][r + 1]) :
                       /\ notna(dataframe[c][r + 1][k])
                       /\ \E n \in DeclaredNames(f) :
                             Norm(dataframe[c][r + 1][k]) = Norm(n) )

(* Alias number a is the first declared alias of f that the row holds. *)
FirstPresentAlias(f, a, hr) ==
    /\ HasAlias(f, a, hr)
    /\ \A b \in 1..(a - 1) : ~HasAlias(f, b, hr)

(* The row holds two aliases of f with different normal forms. *)
TwoAliases(f, hr) ==
    \E a, b \in 1..Len(f.aliases) :
        /\ HasAlias(f, a, hr) /\ HasAlias(f, b, hr)
        /\ normalize_alias(f.aliases[a]) # normalize_alias(f.aliases[b])

(* C7: first alias wins.  When a scanned row lacks a field's canonical    *)
(* name and holds two or more of its aliases, the index recorded from the *)
(* row is the column of the first declared alias among those present,     *)
(* whatever the order of the cells.                                       *)
C7_FirstAliasWins ==
    [][\A c \in Calls : \A f \in AllFields :
          ( /\ Records(c, f.header)
            /\ ~HasCanonical(f, HeaderRowAt(c, i[c]))
            /\ TwoAliases(f, HeaderRowAt(c, i[c])) )
          => \E a \in 1..Len(f.aliases) :
                /\ FirstPresentAlias(f, a, HeaderRowAt(c, i[c]))
                /\ collected_headers'[c][f.header] =
                      LeftmostColumn(HeaderRowAt(c, i[c]),
                                     normalize_alias(f.aliases[a]))]_vars

(* The row just scanned holds the second declared alias left of the       *)
(* first, and the first one's column is recorded.                         *)
C7_Witness ==
    \E c \in Calls : \E f \in AllFields :
        /\ pc[c] = "scan" /\ i[c] > 0
        /\ f.header \in DOMAIN collected_headers[c]
        /\ LET hr == HeaderRowAt(c, i[c] - 1) IN
           /\ ~HasCanonical(f, hr)
           /\ \E a, b \in 1..Len(f.aliases) :
                 /\ a < b
                 /\ FirstPresentAlias(f, a, hr) /\ HasAlias(f, b, hr)
                 /\ LeftmostColumn(hr, normalize_alias(f.aliases[b]))
                       < LeftmostColumn(hr, normalize_alias(f.aliases[a]))
                 /\ collected_headers[c][f.header] =
                       LeftmostColumn(hr, normalize_alias(f.aliases[a]))

(* C8: bounded scan window.  Two tables with equal first                  *)
(* min(maxRows, rowCount) rows give the same result: rows at index        *)
(* maxRows and beyond never count, header names in them included.         *)
C8_BoundedWindow ==
    \A c, d \in Calls :
        ( /\ pc[c] = "done" /\ pc[d] = "done"
          /\ Prefix(dataframe[c]) = Prefix(dataframe[d]) )
        => result[c] = result[d]

(* The second table continues the first with a row of header names past  *)
(* the window.                                                            *)
C8_Witness ==
    \E c, d \in Calls :
        /\ pc[c] = "done" /\ pc[d] = "done"
        /\ Prefix(dataframe[c]) = Prefix(dataframe[d])
        /\ Len(dataframe[d]) > max_rows
        /\ Len(dataframe[c]) <= max_rows
        /\ \E f \in RequiredFields :
              /\ FieldInRow(f, HeaderRowAt(d, max_rows))
              /\ ~MatchedInWindow(d, f)
        /\ result[c] = result[d]

RECURSIVE ScanAlone(_, _, _)
ScanAlone(t, r, acc) ==
    IF r >= Len(t) THEN acc
    ELSE ScanAlone(t, r + 1,
            scan_row(required_headers, optional_headers, t[r + 1], r, acc))

(* What one call on table t returns when nothing else runs. *)
ResultAlone(t) ==
    find_header_row_return(required_headers, optional_headers,
        ScanAlone(Prefix(t), 0, Locals(EmptyDict, keys(required_headers), {})))

(* C9: stateless, independent calls.  In every interleaving each call     *)
(* returns what it returns when run alone (so two calls on one table      *)
(* agree), and no step changes the schema, max_rows or a table.           *)
C9_IndependentCalls ==
    [][/\ \A c \in Calls :
             pc[c] # "done" /\ pc'[c] = "done"
             => /\ result'[c] = ResultAlone(dataframe[c])
                /\ parsed'[c] = parse_csv_return(dataframe[c], ResultAlone(dataframe[c]))
       /\ \A c \in Calls :
             pc[c] = "done" => result'[c] = result[c] /\ parsed'[c] = parsed[c]
       /\ required_headers' = required_headers
       /\ optional_headers' = optional_headers
       /\ max_rows' = max_rows
       /\ dataframe' = dataframe]_vars

(* Two calls on different tables are both in the middle of their scans,   *)
(* with different indices collected so far.                               *)
C9_Witness ==
    /\ dataframe[1] # dataframe[2]
    /\ pc[1] = "scan" /\ pc[2] = "scan"
    /\ i[1] > 0 /\ i[2] > 0
    /\ i[1] < WindowLen(1)
    /\ collected_headers[1] # collected_headers[2]
    /\ DOMAIN collected_headers[1] # {}
    /\ DOMAIN collected_headers[2] # {}

(* The normalized names under which header h is declared. *)
NormalizedNames(h) ==
    UNION {{normalize_header(f.header)}
           \cup {normalize_alias(f.aliases[a]) : a \in 1..Len(f.aliases)}
              : f \in {g \in AllFields : g.header = h}}

(* Column col is a column of call c's table, and in one of the first n    *)
(* rows it is the leftmost column holding one of h's names.               *)
Sound(c, h, col, n) ==
    /\ Len(dataframe[c]) > 0
    /\ 0 <= col /\ col < Len(dataframe[c][1])
    /\ \E r \in 0..(n - 1) : \E x \in NormalizedNames(h) :
          /\ HeaderRowAt(c, r)[col + 1] = x
          /\ \A j \in 1..col : HeaderRowAt(c, r)[j] # x

(* C10: mapping soundness.  At every point of the scan and in the result, *)
(* an index recorded for a field is a column of the table at which some   *)
(* scanned row of the window holds the field's normalized canonical name  *)
(* or alias, and it is the leftmost column of that row holding the name.  *)
C10_MappingSoundness ==
    \A c \in Calls :
        /\ i[c] <= WindowLen(c)
        /\ \A h \in DOMAIN collected_headers[c] :
              Sound(c, h, collected_headers[c][h], i[c])
        /\ pc[c] = "done"
           => /\ DOMAIN result[c].header_indices \subseteq keyset(required_headers)
              /\ DOMAIN result[c].optional_indices \subseteq keyset(optional_headers)
              /\ \A h \in DOMAIN result[c].header_indices :
                    Sound(c, h, result[c].header_indices[h], WindowLen(c))
              /\ \A h \in DOMAIN result[c].optional_indices :
                    Sound(c, h, result[c].optional_indices[h], WindowLen(c))

(* A name recorded at a column is repeated to the right in the same row.  *)
C10_Witness ==
    \E c \in Calls : \E h \in DOMAIN collected_headers[c] :
        /\ i[c] > 0
        /\ \E r \in 0..(i[c] - 1) : \E x \in NormalizedNames(h) :
              /\ HeaderRowAt(c, r)[collected_headers[c][h] + 1] = x
              /\ \E j \in (collected_headers[c][h] + 2)..Len(HeaderRowAt(c, r)) :
                    HeaderRowAt(c, r)[j] = x

====
